---- MODULE Spec2Model ----
(***************************************************************************)
(* Model of src/mcp_server.py: the MCPServer transport loop, dispatcher,   *)
(* correlation store and protocol handlers.                                *)
(*                                                                         *)
(* Encoding of Python values:                                              *)
(*   - an optional dictionary key is a set with at most one element:       *)
(*     {} when the key is absent, {v} when it is present with value v;     *)
(*     `"k" in d` is d.k # {}, `d["k"]` raises KeyError when d.k = {};     *)
(*   - a dictionary (sampling_requests, pending_tool_requests) is a        *)
(*     function whose DOMAIN is the set of keys;                           *)
(*   - a handler is an operator from the server's fields and the inbound   *)
(*     message to the fields after the handler returned or raised; `out`   *)
(*     collects what _send_message wrote, `raised` tells that an exception *)
(*     left the handler (run() catches it at line 46 and keeps whatever    *)
(*     the handler had already assigned).                                  *)
(***************************************************************************)
EXTENDS Integers, Sequences, FiniteSets, TLC

\* Bound of the model: number of sampling ids the run may allocate.
MaxTickets == 2

\* self.request_id_counter = 1000
FirstId == 1000

\* "code": -32603
InternalError == -32603

\* A string holding a lone surrogate ("\ud800" in the JSON line): json.loads
\* accepts it, sys.stdout.write cannot encode it.
Surrogate == "\\ud800"

\* str(None), what an f-string renders for a missing value
NoneStr == "None"

Get(opt) == CHOOSE x \in opt : TRUE

Put(d, k, v) == [x \in DOMAIN d \cup {k} |-> IF x = k THEN v ELSE d[x]]

\* a plausible slip: the entry is read and left in the dictionary
Pop_reading(d, k) == d

Pop(d, k) == [x \in DOMAIN d \ {k} |-> d[x]]

EmptyDict == [x \in {} |-> 0]

(***************************************************************************)
(* Inbound messages (what json.loads returns for a line holding an object) *)
(***************************************************************************)
CallerIds == {1}

\* the ids trigger_sampling can allocate within the bound
SamplingIds == FirstId .. (FirstId + MaxTickets - 1)

Opt(S) == {{}} \cup {{x} : x \in S}

ArgTexts == {"a", "b", Surrogate}

GenTexts == {"p", Surrogate}

HandledMethods ==
    {"initialize", "notifications/initialized", "tools/list", "tools/call",
     "prompts/list", "resources/list", "resources/templates/list"}

OtherMethods == {"ping"}

Msg(method, id, params, result, error) ==
    [method |-> method, id |-> id, params |-> params,
     result |-> result, error |-> error]

PoemParams(text) ==
    [name |-> {"generate_poem"},
     arguments |-> {[text_to_analyze |-> {text}]}]

\* tools/call for generate_poem with its argument: without id, with ids that
\* differ, with one id twice, and with an id the server uses itself
PoemCalls ==
    {Msg("tools/call", {}, {PoemParams("a")}, {}, {}),
     Msg("tools/call", {FirstId}, {PoemParams("b")}, {}, {})}
      \cup {Msg("tools/call", {i}, {PoemParams(t)}, {}, {}) :
                i \in CallerIds, t \in ArgTexts}

\* params missing, without name, naming another tool, without arguments,
\* without text_to_analyze
BrokenParams ==
    Opt({[name |-> {}, arguments |-> {}],
         [name |-> {"other_tool"}, arguments |-> {}],
         [name |-> {"generate_poem"}, arguments |-> {}],
         [name |-> {"generate_poem"}, arguments |-> {[text_to_analyze |-> {}]}]})

\* messages with a method: requests and notifications.  An id chosen by the
\* peer may be any value, also one the server uses for a sampling request.
Requests ==
    {Msg(m, i, {}, {}, {}) :
        m \in (HandledMethods \ {"tools/call"}) \cup OtherMethods,
        i \in {{}, {FirstId}}}
      \cup PoemCalls
      \cup {Msg("tools/call", {i}, p, {}, {}) : i \in CallerIds, p \in BrokenParams}

\* the value of "content": not a JSON object, or an object with its type and
\* text
Contents ==
    {[isDict |-> FALSE, type |-> {}, text |-> {}],
     [isDict |-> TRUE, type |-> {"image"}, text |-> {}]}
      \cup {[isDict |-> TRUE, type |-> {"text"}, text |-> t] : t \in Opt(GenTexts)}

\* the value of "result": kind "dict" a JSON object, "null" JSON null
Results ==
    {[kind |-> "null", content |-> {}]}
      \cup {[kind |-> "dict", content |-> c] : c \in Opt(Contents)}

\* the value of "error": a string (an object renders through repr and always
\* encodes)
Errors == {"e", Surrogate}

TextResult(t) ==
    [kind |-> "dict",
     content |-> {[isDict |-> TRUE, type |-> {"text"}, text |-> {t}]}]

\* messages without a method (method absent, null or ""): responses, with an
\* id the server can allocate or with another one or none
Responses ==
    {Msg("", {i}, {}, r, {}) : i \in SamplingIds, r \in Opt(Results)}
      \cup {Msg("", {i}, {}, {}, {e}) : i \in SamplingIds, e \in Errors}
      \cup {Msg("", {i}, {}, {TextResult("p")}, {"e"}) : i \in SamplingIds}
      \cup {Msg("", i, {}, {TextResult("p")}, {}) : i \in Opt(CallerIds)}
      \cup {Msg("", {i}, {}, {}, {"e"}) : i \in CallerIds}

Inbound == Requests \cup Responses

(***************************************************************************)
(* Outbound messages (what _send_message is given)                         *)
(***************************************************************************)
\* embeds: the inbound strings the message carries, in order
OutMsg(id, method, result, error, embeds) ==
    [id |-> id, method |-> method, result |-> result, error |-> error,
     embeds |-> embeds]

Encodable(message) ==
    \A k \in 1 .. Len(message.embeds) : message.embeds[k] # Surrogate

(***************************************************************************)
(* The server's fields while a handler runs                                *)
(***************************************************************************)
Fields(counter, sampling, pending) ==
    [request_id_counter |-> counter, sampling_requests |-> sampling,
     pending_tool_requests |-> pending, out |-> <<>>, raised |-> FALSE]

\* a plausible slip: the recovery from an exception resets the correlation
\* store
Raise_resetting(st) ==
    [st EXCEPT !.raised = TRUE, !.sampling_requests = EmptyDict,
               !.pending_tool_requests = EmptyDict]

Raise(st) == [st EXCEPT !.raised = TRUE]

_send_message(st, message) ==
    IF Encodable(message)
    THEN [st EXCEPT !.out = Append(@, message)]
    ELSE Raise(st)

handle_initialize(st, request) ==
    IF request.id = {} THEN Raise(st)
    ELSE _send_message(st, OutMsg(request.id, "", {"capabilities"}, {}, <<>>))

handle_initialized(st, request) == st

handle_empty_list(st, request) ==
    IF request.id = {} THEN Raise(st)
    ELSE _send_message(st, OutMsg(request.id, "", {"null"}, {}, <<>>))

handle_tools_list(st, request) ==
    IF request.id = {} THEN Raise(st)
    ELSE _send_message(st, OutMsg(request.id, "", {"tools"}, {}, <<>>))

\* returns the fields after the call; the id it returns is the counter before
trigger_sampling(st, text_from_tool) ==
    LET request_id == st.request_id_counter
        st1 == [st EXCEPT !.request_id_counter = @ + 1]
        sampling_request ==
            OutMsg({request_id}, "sampling/createMessage", {}, {},
                   <<text_from_tool>>)
        st2 == [st1 EXCEPT !.sampling_requests = Put(@, request_id, text_from_tool)]
    IN  _send_message(st2, sampling_request)

\* a plausible slip: a tool the server does not know is answered with an error
handle_tools_call_rejecting(st, request) ==
    IF request.params = {} THEN Raise(st)
    ELSE LET params == Get(request.params) IN
    IF params.name = {} THEN Raise(st)
    ELSE IF Get(params.name) = "generate_poem"
    THEN IF params.arguments = {} THEN Raise(st)
         ELSE LET arguments == Get(params.arguments) IN
         IF arguments.text_to_analyze = {} THEN Raise(st)
         ELSE LET text == Get(arguments.text_to_analyze)
                  sampling_request_id == st.request_id_counter
                  st1 == trigger_sampling(st, text)
              IN  IF st1.raised THEN st1
                  ELSE [st1 EXCEPT !.pending_tool_requests =
                                       Put(@, sampling_request_id, request)]
    ELSE IF request.id = {} THEN Raise(st)
    ELSE _send_message(st,
            OutMsg(request.id, "", {},
                   {[code |-> InternalError, message |-> "unknown tool"]},
                   <<>>))

\* a plausible slip: the sampling id is allocated before the arguments are read
handle_tools_call_allocating(st, request) ==
    LET st0 == [st EXCEPT !.request_id_counter = @ + 1] IN
    IF request.params = {} THEN Raise(st0)
    ELSE LET params == Get(request.params) IN
    IF params.name = {} THEN Raise(st0)
    ELSE IF Get(params.name) = "generate_poem"
    THEN IF params.arguments = {} THEN Raise(st0)
         ELSE LET arguments == Get(params.arguments) IN
         IF arguments.text_to_analyze = {} THEN Raise(st0)
         ELSE LET text == Get(arguments.text_to_analyze)
                  sampling_request_id == st.request_id_counter
                  st1 == trigger_sampling(st, text)
              IN  IF st1.raised THEN st1
                  ELSE [st1 EXCEPT !.pending_tool_requests =
                                       Put(@, sampling_request_id, request)]
    ELSE st

\* a plausible slip: the tools/call is answered at once, before the sampling
\* round trip
handle_tools_call_answering(st, request) ==
    IF request.params = {} THEN Raise(st)
    ELSE LET params == Get(request.params) IN
    IF params.name = {} THEN Raise(st)
    ELSE IF Get(params.name) = "generate_poem"
    THEN IF params.arguments = {} THEN Raise(st)
         ELSE LET arguments == Get(params.arguments) IN
         IF arguments.text_to_analyze = {} THEN Raise(st)
         ELSE LET text == Get(arguments.text_to_analyze)
                  sampling_request_id == st.request_id_counter
                  st1 == trigger_sampling(st, text)
              IN  IF st1.raised THEN st1
                  ELSE LET st2 == [st1 EXCEPT !.pending_tool_requests =
                                       Put(@, sampling_request_id, request)]
                       IN  IF request.id = {} THEN Raise(st2)
                           ELSE _send_message(st2,
                                   OutMsg(request.id, "", {"poem"}, {},
                                          <<text, NoneStr>>))
    ELSE st

handle_tools_call(st, request) ==
    IF request.params = {} THEN Raise(st)
    ELSE LET params == Get(request.params) IN
    IF params.name = {} THEN Raise(st)
    ELSE IF Get(params.name) = "generate_poem"
    THEN IF params.arguments = {} THEN Raise(st)
         ELSE LET arguments == Get(params.arguments) IN
         IF arguments.text_to_analyze = {} THEN Raise(st)
         ELSE LET text == Get(arguments.text_to_analyze)
                  sampling_request_id == st.request_id_counter
                  st1 == trigger_sampling(st, text)
              IN  IF st1.raised THEN st1
                  ELSE [st1 EXCEPT !.pending_tool_requests =
                                       Put(@, sampling_request_id, request)]
    ELSE st

_send_tool_error_response(st, original_request, error_message, embeds) ==
    IF original_request.id = {} THEN Raise(st)
    ELSE _send_message(st,
            OutMsg(original_request.id, "", {},
                   {[code |-> InternalError, message |-> error_message]},
                   embeds))

\* a plausible slip: the reply is addressed to the oldest pending call
oldest_tool_request(st, request_id) ==
    LET d == st.pending_tool_requests IN
    IF DOMAIN d = {} THEN {}
    ELSE {d[CHOOSE k \in DOMAIN d : \A j \in DOMAIN d : k <= j]}

\* self.pending_tool_requests.pop(request_id, None): the value, None as {}
original_tool_request_of(st, request_id) ==
    IF request_id \in DOMAIN st.pending_tool_requests
    THEN {st.pending_tool_requests[request_id]}
    ELSE {}

handle_sampling_response(st, response) ==
    IF response.id # {} /\ Get(response.id) \in DOMAIN st.sampling_requests
    THEN LET request_id == Get(response.id)
             original_text == st.sampling_requests[request_id]
             popped == original_tool_request_of(st, request_id)
             st1 == [st EXCEPT
                       !.sampling_requests = Pop(@, request_id),
                       !.pending_tool_requests = Pop(@, request_id)]
         IN  IF popped # {}
             THEN LET original_tool_request == Get(popped) IN
                  \* "content" in None raises TypeError
                  IF response.result # {} /\ Get(response.result).kind = "null"
                  THEN Raise(st1)
                  ELSE IF response.result # {}
                          /\ Get(response.result).content # {}
                  THEN LET content == Get(Get(response.result).content) IN
                       \* content.get on a list, a string or None raises
                       IF ~content.isDict THEN Raise(st1)
                       ELSE IF content.type = {"text"}
                       THEN LET poetic_text ==
                                   IF content.text = {} THEN NoneStr
                                   ELSE Get(content.text)
                            IN  IF original_tool_request.id = {} THEN Raise(st1)
                                ELSE _send_message(st1,
                                        OutMsg(original_tool_request.id, "",
                                               {"poem"}, {},
                                               <<original_text, poetic_text>>))
                       ELSE _send_tool_error_response(st1, original_tool_request,
                                "Unexpected response format from sampling", <<>>)
                  ELSE IF response.error # {}
                  THEN _send_tool_error_response(st1, original_tool_request,
                            "Sampling failed: ", <<Get(response.error)>>)
                  ELSE _send_tool_error_response(st1, original_tool_request,
                            "Unexpected sampling response format", <<>>)
             ELSE st1
    ELSE st

\* a plausible slip: a default handler for the methods the table lacks
get_handler_default(method) == {method}

\* handlers.get(method): the handler found, None as {}
get_handler(method) == IF method \in HandledMethods THEN {method} ELSE {}

CallHandler(name, st, request) ==
    CASE name = "initialize" -> handle_initialize(st, request)
      [] name = "notifications/initialized" -> handle_initialized(st, request)
      [] name = "tools/list" -> handle_tools_list(st, request)
      [] name = "tools/call" -> handle_tools_call(st, request)
      [] OTHER -> handle_empty_list(st, request)

\* a plausible slip: the id is looked up before the method
Dispatch_id_first(st, request) ==
    IF request.id # {} /\ Get(request.id) \in DOMAIN st.sampling_requests
    THEN handle_sampling_response(st, request)
    ELSE IF request.method # ""
    THEN LET handler == get_handler(request.method) IN
         IF handler # {} THEN CallHandler(Get(handler), st, request)
         ELSE st
    ELSE st

\* a plausible slip: a response nobody waits for is answered with an error
Dispatch_answering_orphans(st, request) ==
    IF request.method # ""
    THEN LET handler == get_handler(request.method) IN
         IF handler # {} THEN CallHandler(Get(handler), st, request)
         ELSE st
    ELSE IF request.id # {} /\ Get(request.id) \in DOMAIN st.sampling_requests
    THEN handle_sampling_response(st, request)
    ELSE _send_tool_error_response(st, request, "Unknown id", <<>>)

\* run(), lines 27-41: one decoded object handed to the dispatcher
Dispatch(st, request) ==
    IF request.method # ""
    THEN LET handler == get_handler(request.method) IN
         IF handler # {} THEN CallHandler(Get(handler), st, request)
         ELSE st
    ELSE IF request.id # {} /\ Get(request.id) \in DOMAIN st.sampling_requests
    THEN handle_sampling_response(st, request)
    ELSE st

(***************************************************************************)
(* State                                                                   *)
(***************************************************************************)
VARIABLES
    request_id_counter,     \* self.request_id_counter
    sampling_requests,      \* self.sampling_requests: sampling id -> text
    pending_tool_requests,  \* self.pending_tool_requests: sampling id -> request
    pc,                     \* position of run(): "select", "read", "stopped"
    eof,                    \* stdin is at end-of-stream
    last,                   \* what the last finished iteration took from stdin
    sent,                   \* what the last finished iteration wrote to stdout
    prev,                   \* the three fields before the last finished iteration
    issued,                 \* ids of all sampling requests written so far
    origin,                 \* sampling id -> the inbound message during whose
                            \* handling that request was written, until a
                            \* method-less message with that id is handled
    handshake               \* an initialize or notifications/initialized
                            \* message has been read

vars == <<request_id_counter, sampling_requests, pending_tool_requests,
          pc, eof, last, sent, prev, issued, origin, handshake>>

Snapshot ==
    [request_id_counter |-> request_id_counter,
     sampling_requests |-> sampling_requests,
     pending_tool_requests |-> pending_tool_requests]

Event(kind, msg) == [kind |-> kind, msg |-> msg]

Init ==
    /\ request_id_counter = FirstId
    /\ sampling_requests = EmptyDict
    /\ pending_tool_requests = EmptyDict
    /\ pc = "select"
    /\ eof = FALSE
    /\ last = Event("start", {})
    /\ sent = <<>>
    /\ prev = Snapshot
    /\ issued = {}
    /\ origin = EmptyDict
    /\ handshake = FALSE

\* an iteration that changes no field and writes nothing
Idle(kind) ==
    /\ last' = Event(kind, {})
    /\ sent' = <<>>
    /\ prev' = Snapshot
    /\ UNCHANGED <<request_id_counter, sampling_requests,
                   pending_tool_requests, issued, origin, handshake>>

\* a plausible slip: the timeout expires the outstanding tickets
Timeout_expiring ==
    /\ pc = "select"
    /\ ~eof
    /\ last' = Event("timeout", {})
    /\ sent' = <<>>
    /\ prev' = Snapshot
    /\ sampling_requests' = EmptyDict
    /\ pending_tool_requests' = EmptyDict
    /\ origin' = EmptyDict
    /\ UNCHANGED <<request_id_counter, issued, pc, eof, handshake>>

\* _wait_for_input returns False: the timeout elapsed, the loop starts over
Timeout ==
    /\ pc = "select"
    /\ ~eof
    /\ Idle("timeout")
    /\ UNCHANGED <<pc, eof>>

\* _wait_for_input returns True: a line is waiting, or stdin is at its end
WaitForInput ==
    /\ pc = "select"
    /\ pc' = "read"
    /\ UNCHANGED <<request_id_counter, sampling_requests, pending_tool_requests,
                   eof, last, sent, prev, issued, origin, handshake>>

\* _read_message: readline returns '' at end-of-stream, request is None
ReadEOF ==
    /\ pc = "read"
    /\ eof
    /\ Idle("eof")
    /\ pc' = "select"
    /\ UNCHANGED eof

\* a plausible slip: the decode failure is not caught and ends the loop
ReadMalformedFatal ==
    /\ pc = "read"
    /\ ~eof
    /\ Idle("malformed")
    /\ pc' = "stopped"
    /\ UNCHANGED eof

\* _read_message: the line does not decode, request is None
ReadMalformed ==
    /\ pc = "read"
    /\ ~eof
    /\ Idle("malformed")
    /\ pc' = "select"
    /\ UNCHANGED eof

\* the line decodes to a JSON value that is no object: request.get raises
ReadNonObject ==
    /\ pc = "read"
    /\ ~eof
    /\ Idle("nonobject")
    /\ pc' = "select"
    /\ UNCHANGED eof

SamplingOut(out) ==
    {k \in 1 .. Len(out) : out[k].method = "sampling/createMessage"}

\* the two messages of the handshake
HandshakeMethods == {"initialize", "notifications/initialized"}

\* a plausible slip: a tools/call read before the handshake is ignored
ReadAndDispatch_gated(request) ==
    /\ pc = "read"
    /\ ~eof
    /\ \E st \in {IF request.method = "tools/call" /\ ~handshake
                    THEN Fields(request_id_counter, sampling_requests,
                                pending_tool_requests)
                    ELSE Dispatch(Fields(request_id_counter, sampling_requests,
                                         pending_tool_requests), request)} :
       LET minted == {Get(st.out[k].id) : k \in SamplingOut(st.out)}
           answered == IF request.method = "" /\ request.id # {}
                       THEN request.id ELSE {}
       IN  /\ st.request_id_counter <= FirstId + MaxTickets
           /\ request_id_counter' = st.request_id_counter
           /\ sampling_requests' = st.sampling_requests
           /\ pending_tool_requests' = st.pending_tool_requests
           /\ sent' = st.out
           /\ issued' = issued \cup minted
           /\ origin' = [i \in ((DOMAIN origin) \ answered) \cup minted |->
                            IF i \in minted THEN request ELSE origin[i]]
    /\ last' = Event("message", {request})
    /\ prev' = Snapshot
    /\ handshake' = (handshake \/ request.method \in HandshakeMethods)
    /\ pc' = "select"
    /\ UNCHANGED eof

\* the line decodes to an object, which is dispatched
ReadAndDispatch(request) ==
    /\ pc = "read"
    /\ ~eof
    /\ \E st \in {Dispatch(Fields(request_id_counter, sampling_requests,
                                  pending_tool_requests), request)} :
       LET minted == {Get(st.out[k].id) : k \in SamplingOut(st.out)}
           answered == IF request.method = "" /\ request.id # {}
                       THEN request.id ELSE {}
       IN  /\ st.request_id_counter <= FirstId + MaxTickets
           /\ request_id_counter' = st.request_id_counter
           /\ sampling_requests' = st.sampling_requests
           /\ pending_tool_requests' = st.pending_tool_requests
           /\ sent' = st.out
           /\ issued' = issued \cup minted
           /\ origin' = [i \in ((DOMAIN origin) \ answered) \cup minted |->
                            IF i \in minted THEN request ELSE origin[i]]
    /\ last' = Event("message", {request})
    /\ prev' = Snapshot
    /\ handshake' = (handshake \/ request.method \in HandshakeMethods)
    /\ pc' = "select"
    /\ UNCHANGED eof

\* the peer closes its end: stdin reaches end-of-stream
CloseStdin ==
    /\ pc = "select"
    /\ ~eof
    /\ eof' = TRUE
    /\ UNCHANGED <<request_id_counter, sampling_requests, pending_tool_requests,
                   pc, last, sent, prev, issued, origin, handshake>>

\* KeyboardInterrupt: the only break out of the loop
Interrupt ==
    /\ pc = "select"
    /\ pc' = "stopped"
    /\ UNCHANGED <<request_id_counter, sampling_requests, pending_tool_requests,
                   eof, last, sent, prev, issued, origin, handshake>>

Next ==
    \/ Timeout
    \/ WaitForInput
    \/ ReadEOF
    \/ ReadMalformed
    \/ ReadNonObject
    \/ \E request \in Inbound : ReadAndDispatch(request)
    \/ CloseStdin
    \/ Interrupt

Spec == Init /\ [][Next]_vars

\* the loop itself always takes its next step; the peer and the operator
\* (CloseStdin, Interrupt) are under no obligation
Loop ==
    \/ Timeout
    \/ WaitForInput
    \/ ReadEOF
    \/ ReadMalformed
    \/ ReadNonObject
    \/ \E request \in Inbound : ReadAndDispatch(request)

FairSpec == Spec /\ WF_vars(Loop)

(***************************************************************************)
(* Vocabulary of the properties                                            *)
(***************************************************************************)
\* the step is an iteration of run() that read a decoded object
Handling == pc = "read" /\ last'.kind = "message"

\* the object that the step reads
Read == Get(last'.msg)

\* the last finished iteration read a decoded object
Handled == last.kind = "message"

LastMsg == Get(last.msg)

IsPoemCall(m) ==
    /\ m.method = "tools/call"
    /\ m.params # {}
    /\ Get(m.params).name = {"generate_poem"}
    /\ Get(m.params).arguments # {}
    /\ Get(Get(m.params).arguments).text_to_analyze # {}

ArgOf(m) == Get(Get(Get(m.params).arguments).text_to_analyze)

IsResponse(m) == m.method = ""

\* m is method-less and its id is a key of the argument mapping d
Matches(m, d) == IsResponse(m) /\ m.id # {} /\ Get(m.id) \in DOMAIN d

HasTextContent(m) ==
    /\ m.result # {}
    /\ Get(m.result).kind = "dict"
    /\ Get(m.result).content # {}
    /\ Get(Get(m.result).content).isDict
    /\ Get(Get(m.result).content).type = {"text"}
    /\ Get(Get(m.result).content).text # {}

GenOf(m) == Get(Get(Get(m.result).content).text)

IsSamplingRequest(o) == o.method = "sampling/createMessage"

IsToolResult(o) == o.method = "" /\ o.result = {"poem"} /\ o.error = {}

IsToolError(o) ==
    o.method = "" /\ o.result = {} /\ o.error # {}
      /\ Get(o.error).code = InternalError

Stored == prev.pending_tool_requests

\* C1: handling a tools/call that names generate_poem and carries the string
\* argument text_to_analyze writes exactly one sampling/createMessage request,
\* whose id is greater than every sampling id written before (1000 for the
\* first one).
C1_OneFreshSamplingRequest ==
    [][(Handling /\ IsPoemCall(Read)) =>
          /\ Len(sent') = 1
          /\ IsSamplingRequest(sent'[1])
          /\ \A i \in issued : Get(sent'[1].id) > i
          /\ issued = {} => sent'[1].id = {FirstId}]_vars

\* the last iteration handled a method-less message whose id is the sampling
\* id of an outstanding ticket minted by a tools/call that carries an id (the
\* tickets whose reply has an address)
Resolves ==
    /\ Handled
    /\ Matches(LastMsg, prev.sampling_requests)
    /\ Get(LastMsg.id) \in DOMAIN Stored
    /\ Stored[Get(LastMsg.id)].id # {}

Ticket == Get(LastMsg.id)

TextTyped(m) ==
    /\ m.result # {}
    /\ Get(m.result).kind = "dict"
    /\ Get(m.result).content # {}
    /\ Get(Get(m.result).content).isDict
    /\ Get(Get(m.result).content).type = {"text"}

\* C2: when a method-less message arrives whose id is the sampling id of an
\* outstanding ticket and whose result carries a text-typed content block,
\* exactly one message is written: a result whose id is the id of the original
\* tools/call and whose text embeds the original argument and the generated
\* text.
C2_SuccessRoundTrip ==
    (Resolves /\ HasTextContent(LastMsg)) =>
       /\ Len(sent) = 1
       /\ IsToolResult(sent[1])
       /\ sent[1].id = Stored[Ticket].id
       /\ sent[1].embeds = <<prev.sampling_requests[Ticket], GenOf(LastMsg)>>

\* C3: when a method-less message arrives whose id is the sampling id of an
\* outstanding ticket and which carries an error instead of a result, exactly
\* one message is written: an error with code -32603 whose id is the id of the
\* original tools/call and whose message embeds the upstream error.
C3_ErrorRoundTrip ==
    (Resolves /\ LastMsg.result = {} /\ LastMsg.error # {}) =>
       /\ Len(sent) = 1
       /\ IsToolError(sent[1])
       /\ sent[1].id = Stored[Ticket].id
       /\ sent[1].embeds = <<Get(LastMsg.error)>>

\* C4: when a method-less message arrives whose id is the sampling id of an
\* outstanding ticket and whose payload is a result with content that is not
\* text-typed, or is otherwise structurally unexpected (content that is not an
\* object, a result that is null or has no content, neither result nor error),
\* exactly one error with code -32603 addressed to the id of the original
\* tools/call is written.
C4_UnexpectedShapeAnswered ==
    (Resolves /\ ~TextTyped(LastMsg)
        /\ (LastMsg.result # {} \/ LastMsg.error = {})) =>
       /\ Len(sent) = 1
       /\ IsToolError(sent[1])
       /\ sent[1].id = Stored[Ticket].id

\* the step handles a method-less message whose id is the id of a sampling
\* request that was written and not answered since
Answering == Handling /\ Matches(Read, origin)

Minter == origin[Get(Read.id)]

\* C5 as stated: when several tools/call are outstanding, their sampling ids
\* are pairwise distinct, and in whatever order the responses arrive every
\* tool reply written carries the id and the argument of the tools/call that
\* minted the ticket being resolved.
C5_RepliesCarryIdAndArgument ==
    [][/\ Handling =>
             \A k \in 1 .. Len(sent') :
                IsSamplingRequest(sent'[k]) => Get(sent'[k].id) \notin issued
       /\ (Answering /\ Cardinality(DOMAIN origin) >= 2) =>
             \A k \in 1 .. Len(sent') :
                /\ sent'[k].id = Minter.id
                /\ Len(sent'[k].embeds) >= 1
                /\ sent'[k].embeds[1] = ArgOf(Minter)]_vars

\* C5 (amended): the sampling ids of outstanding tools/call are pairwise
\* distinct (a sampling request never reuses an id written before), and in
\* whatever order the responses arrive, and whatever other tickets are
\* outstanding, every tool reply written carries the id of the tools/call that
\* minted the ticket being resolved, and every result reply embeds the
\* argument of that tools/call.
C5_RepliesRouted ==
    [][/\ Handling =>
             \A k \in 1 .. Len(sent') :
                IsSamplingRequest(sent'[k]) => Get(sent'[k].id) \notin issued
       /\ Answering =>
             \A k \in 1 .. Len(sent') :
                /\ IsToolResult(sent'[k]) \/ IsToolError(sent'[k])
                /\ sent'[k].id = Minter.id
                /\ IsToolResult(sent'[k]) =>
                      sent'[k].embeds[1] = ArgOf(Minter)]_vars

\* two tickets of different callers with different arguments are outstanding
\* and the one minted second is resolved first: the result goes to its own
\* caller with its own argument while the first ticket stays outstanding
C5_ReverseOrderResolved ==
    /\ Handled
    /\ LastMsg.id = {FirstId + 1}
    /\ FirstId + 1 \in DOMAIN Stored
    /\ FirstId \in DOMAIN pending_tool_requests
    /\ Len(sent) = 1
    /\ IsToolResult(sent[1])
    /\ sent[1].id = Stored[FirstId + 1].id
    /\ sent[1].id # pending_tool_requests[FirstId].id
    /\ sent[1].embeds[1] = prev.sampling_requests[FirstId + 1]
    /\ sent[1].embeds[1] # sampling_requests[FirstId]

\* C6: a method-less message whose id matches no outstanding ticket (already
\* resolved, or never issued) writes nothing and leaves both mappings and the
\* id counter as they were.
C6_OrphanResponseIgnored ==
    (Handled /\ IsResponse(LastMsg)
        /\ ~Matches(LastMsg, prev.sampling_requests)) =>
       /\ sent = <<>>
       /\ Snapshot = prev

\* a second response for a ticket that an earlier response resolved
C6_LateResponseSeen ==
    /\ Handled
    /\ IsResponse(LastMsg)
    /\ LastMsg.id # {}
    /\ Get(LastMsg.id) \in issued
    /\ ~Matches(LastMsg, prev.sampling_requests)
    /\ DOMAIN sampling_requests # {}

\* C7: at every iteration boundary of run() the ids of the argument mapping
\* are the ids of the tool-call mapping.
C7_MappingsAgree ==
    pc = "select" => DOMAIN sampling_requests = DOMAIN pending_tool_requests

\* C8: once stdin is at end-of-stream, run() eventually leaves its loop.
C8_StopsAtEndOfStream == eof ~> (pc = "stopped")

\* C9: a message whose method is none of the seven accepted ones and which
\* carries an id writes nothing and leaves both mappings and the id counter as
\* they were.
C9_UnknownMethodIgnored ==
    (Handled /\ LastMsg.method \notin HandledMethods \cup {""}
        /\ LastMsg.id # {}) =>
       /\ sent = <<>>
       /\ Snapshot = prev

\* an unknown method arrived with an id while a ticket was outstanding
C9_UnknownMethodSeen ==
    /\ Handled
    /\ LastMsg.method = "ping"
    /\ LastMsg.id # {}
    /\ DOMAIN sampling_requests # {}

\* C10: a line that fails to decode writes nothing, changes neither mapping
\* nor the id counter and does not end the loop, and the next decoded line is
\* dispatched as it would have been without the malformed line: from the
\* fields as they were before it.
C10_MalformedLineDropped ==
    [][/\ (pc = "read" /\ last'.kind = "malformed") =>
             /\ sent' = <<>>
             /\ Snapshot' = Snapshot
             /\ pc' = "select"
       /\ (Handling /\ last.kind = "malformed") =>
             LET st == Dispatch(Fields(prev.request_id_counter,
                                       prev.sampling_requests,
                                       prev.pending_tool_requests), Read)
             IN  /\ sent' = st.out
                 /\ request_id_counter' = st.request_id_counter
                 /\ sampling_requests' = st.sampling_requests
                 /\ pending_tool_requests' = st.pending_tool_requests]_vars

\* a malformed line was dropped while a ticket was outstanding and the loop
\* is about to read the next line
C10_MalformedThenRead ==
    /\ last.kind = "malformed"
    /\ pc = "read"
    /\ DOMAIN pending_tool_requests # {}

\* a reply to a tools/call: the result or the error of the tool
IsToolReply(o) == IsToolResult(o) \/ IsToolError(o)

\* C11: the reply to a tools/call is deferred: handling the tools/call writes
\* no result and no error, and a tool reply is written only while handling the
\* method-less message whose id is the sampling id minted for the tools/call
\* that the reply is addressed to.
C11_ReplyDeferred ==
    [][Handling =>
          \A k \in 1 .. Len(sent') :
             /\ Read.method = "tools/call" => IsSamplingRequest(sent'[k])
             /\ IsToolReply(sent'[k]) =>
                   /\ Answering
                   /\ Minter.method = "tools/call"
                   /\ sent'[k].id = Minter.id]_vars

\* a tools/call with an id has been handled: its only output is the sampling
\* request, its ticket is outstanding and its reply is still to come
C11_CallPending ==
    /\ Handled
    /\ IsPoemCall(LastMsg)
    /\ LastMsg.id # {}
    /\ Len(sent) = 1
    /\ IsSamplingRequest(sent[1])
    /\ Get(sent[1].id) \in DOMAIN pending_tool_requests
    /\ pending_tool_requests[Get(sent[1].id)] = LastMsg

\* the step handles an object whose handler raises
Failing ==
    /\ Handling
    /\ Dispatch(Fields(request_id_counter, sampling_requests,
                       pending_tool_requests), Read).raised

\* the sampling id that the object read addresses, if it is a response
Addressed == IF IsResponse(Read) THEN Read.id ELSE {}

KeepsEntry(d, e, i) == i \in DOMAIN d => (i \in DOMAIN e /\ e[i] = d[i])

\* C12: a failure while handling one inbound message (the handler raises, or
\* the decoded value is no object) does not stop the loop and alters no ticket
\* other than the one the message addresses; the loop stops only by an
\* interrupt.
C12_FailuresIsolated ==
    [][/\ Failing =>
             /\ pc' = "select"
             /\ \A i \in (DOMAIN sampling_requests
                            \cup DOMAIN pending_tool_requests) \ Addressed :
                   /\ KeepsEntry(sampling_requests, sampling_requests', i)
                   /\ KeepsEntry(pending_tool_requests, pending_tool_requests', i)
       /\ (pc = "read" /\ last'.kind = "nonobject") =>
             /\ pc' = "select"
             /\ Snapshot' = Snapshot
       /\ (pc # "stopped" /\ pc' = "stopped") => Interrupt]_vars

\* the handler of a response raised (null result) after popping its ticket;
\* another ticket is outstanding as before and the loop reads the next line
C12_FailureSurvived ==
    /\ Handled
    /\ Matches(LastMsg, Stored)
    /\ LastMsg.result # {}
    /\ Get(LastMsg.result).kind = "null"
    /\ sent = <<>>
    /\ DOMAIN pending_tool_requests # {}
    /\ \A i \in DOMAIN pending_tool_requests :
          /\ i \in DOMAIN Stored
          /\ Stored[i] = pending_tool_requests[i]
    /\ pc = "read"

\* C13: handling a method-less message whose id matches an outstanding ticket
\* removes that id from the argument mapping and from the tool-call mapping in
\* that one iteration, whatever the response looks like, and touches no other
\* entry.
C13_TicketDestroyed ==
    (Handled /\ Matches(LastMsg, prev.sampling_requests)) =>
       /\ Ticket \notin DOMAIN sampling_requests
       /\ Ticket \notin DOMAIN pending_tool_requests
       /\ DOMAIN sampling_requests = DOMAIN prev.sampling_requests \ {Ticket}
       /\ DOMAIN pending_tool_requests = DOMAIN Stored \ {Ticket}
       /\ \A i \in DOMAIN sampling_requests :
             sampling_requests[i] = prev.sampling_requests[i]
       /\ \A i \in DOMAIN pending_tool_requests :
             pending_tool_requests[i] = Stored[i]

\* a ticket present in both mappings was destroyed by a response that carries
\* neither result nor error
C13_DestroyedByOddResponse ==
    /\ Handled
    /\ Matches(LastMsg, prev.sampling_requests)
    /\ Ticket \in DOMAIN Stored
    /\ LastMsg.result = {}
    /\ LastMsg.error = {}
    /\ Ticket \notin DOMAIN sampling_requests
    /\ Ticket \notin DOMAIN pending_tool_requests

\* the last iteration handled a message with a method whose id is the
\* sampling id of a ticket that was outstanding
MethodWithTicketId ==
    /\ Handled
    /\ LastMsg.method # ""
    /\ LastMsg.id # {}
    /\ Get(LastMsg.id) \in DOMAIN prev.sampling_requests

\* C14: a message with a non-empty method whose id is the sampling id of an
\* outstanding ticket is dispatched by its method only: the ticket stays as it
\* was in both mappings, no tool reply is written, and what is written is what
\* the handler of the method writes.
C14_MethodBeforeId ==
    MethodWithTicketId =>
       /\ Ticket \in DOMAIN sampling_requests
       /\ sampling_requests[Ticket] = prev.sampling_requests[Ticket]
       /\ KeepsEntry(Stored, pending_tool_requests, Ticket)
       /\ \A k \in 1 .. Len(sent) : ~IsToolReply(sent[k])
       /\ LastMsg.method \in {"initialize", "tools/list", "prompts/list",
                              "resources/list", "resources/templates/list"} =>
             /\ Len(sent) = 1
             /\ sent[1].id = LastMsg.id
             /\ sent[1].result # {}
       /\ LastMsg.method \in {"notifications/initialized"} \cup OtherMethods =>
             sent = <<>>

\* an initialize whose id is the sampling id of an outstanding ticket got the
\* capabilities and the ticket is still outstanding
C14_RequestWithTicketId ==
    /\ MethodWithTicketId
    /\ LastMsg.method = "initialize"
    /\ Ticket \in DOMAIN pending_tool_requests
    /\ Len(sent) = 1
    /\ sent[1].result = {"capabilities"}

\* the step handles a method-less message whose id is i
Resolving(i) == Handling /\ IsResponse(Read) /\ Read.id = {i}

\* C15: an entry leaves the argument mapping or the tool-call mapping only in
\* an iteration that handles a method-less message whose id is the sampling id
\* of that entry; every other step (timeout, malformed line, request of any
\* method, response for another id, end-of-stream, interrupt) leaves the
\* ticket as it is, so a ticket without response stays for ever.
C15_OnlyResponseRemoves ==
    [][\A i \in DOMAIN sampling_requests \cup DOMAIN pending_tool_requests :
          ~Resolving(i) =>
             /\ KeepsEntry(sampling_requests, sampling_requests', i)
             /\ KeepsEntry(pending_tool_requests, pending_tool_requests', i)]_vars

\* a timeout elapsed while a ticket was outstanding, and the ticket is there
C15_TicketOutlivesTimeout ==
    /\ last.kind = "timeout"
    /\ DOMAIN Stored # {}
    /\ Snapshot = prev

\* C16: every inbound initialize message is answered with exactly one result
\* message whose id is the inbound id, in whatever state it arrives, and
\* handling it leaves both mappings and the id counter unchanged.
C16_InitializeAnswered ==
    (Handled /\ LastMsg.method = "initialize") =>
       /\ Len(sent) = 1
       /\ sent[1].id # {}
       /\ sent[1].id = LastMsg.id
       /\ sent[1].result = {"capabilities"}
       /\ sent[1].error = {}
       /\ Snapshot = prev

\* the message is a tools/call that names a tool other than generate_poem
IsOtherToolCall(m) ==
    /\ m.method = "tools/call"
    /\ m.params # {}
    /\ Get(m.params).name # {}
    /\ Get(Get(m.params).name) # "generate_poem"

\* C17: a tools/call whose tool name is not generate_poem produces no outbound
\* message, mints no ticket and leaves the id counter unchanged.
C17_OtherToolIgnored ==
    (Handled /\ IsOtherToolCall(LastMsg)) =>
       /\ sent = <<>>
       /\ Snapshot = prev

\* a call of another tool was handled while a ticket was outstanding
C17_OtherToolSeen ==
    /\ Handled
    /\ IsOtherToolCall(LastMsg)
    /\ DOMAIN Stored # {}
    /\ pending_tool_requests = Stored
    /\ sent = <<>>

\* the step mints a ticket for the call it reads: the counter value becomes
\* the id under which the argument is stored and, unless the write fails, the
\* id of the one sampling request written and of the stored call
Minting ==
    /\ request_id_counter' = request_id_counter + 1
    /\ sampling_requests' =
          Put(sampling_requests, request_id_counter, ArgOf(Read))
    /\ ArgOf(Read) # Surrogate =>
          /\ Len(sent') = 1
          /\ IsSamplingRequest(sent'[1])
          /\ sent'[1].id = {request_id_counter}
          /\ sent'[1].embeds = <<ArgOf(Read)>>
          /\ pending_tool_requests' =
                Put(pending_tool_requests, request_id_counter, Read)

\* C18: the handlers are not gated on the handshake.  A generate_poem call
\* with its argument, read before any initialize or
\* notifications/initialized, mints a ticket and emits a sampling request
\* exactly as one read after the handshake; it is never ignored for being
\* uninitialized.
C18_NoHandshakeGate ==
    [][\A h \in BOOLEAN :
          (Handling /\ IsPoemCall(Read) /\ handshake = h) => Minting]_vars

\* a call was handled, and its sampling request written, before any message
\* of the handshake had been read
C18_CallBeforeHandshake ==
    /\ Handled
    /\ IsPoemCall(LastMsg)
    /\ ~handshake
    /\ Len(sent) = 1
    /\ IsSamplingRequest(sent[1])
    /\ sent[1].id = {prev.request_id_counter}
    /\ prev.request_id_counter \in DOMAIN pending_tool_requests

\* the message is a tools/call without params, tool name, arguments or
\* text_to_analyze
LacksField(m) ==
    /\ m.method = "tools/call"
    /\ \/ m.params = {}
       \/ Get(m.params).name = {}
       \/ Get(m.params).arguments = {}
       \/ Get(Get(m.params).arguments).text_to_analyze = {}

\* C19: a tools/call that lacks params, the tool name, arguments or the
\* text_to_analyze field emits no outbound message, adds no entry to either
\* mapping and leaves the id counter at its previous value.
C19_IncompleteCallAllocatesNothing ==
    (Handled /\ LacksField(LastMsg)) =>
       /\ sent = <<>>
       /\ request_id_counter = prev.request_id_counter
       /\ DOMAIN sampling_requests \subseteq DOMAIN prev.sampling_requests
       /\ DOMAIN pending_tool_requests \subseteq DOMAIN Stored
       /\ Snapshot = prev

\* a generate_poem call without text_to_analyze was handled after an id had
\* been allocated to an earlier call
C19_IncompleteCallSeen ==
    /\ Handled
    /\ LacksField(LastMsg)
    /\ LastMsg.params # {}
    /\ Get(LastMsg.params).name = {"generate_poem"}
    /\ Get(LastMsg.params).arguments # {}
    /\ request_id_counter > FirstId
    /\ request_id_counter = prev.request_id_counter

\* C20: the id counter is at least 1000 and never decreases, it equals 1000
\* plus the number of sampling requests emitted so far, and every id in either
\* mapping lies in the range from 1000 up to but excluding the counter.
C20_CounterCountsRequests ==
    /\ request_id_counter >= FirstId
    /\ request_id_counter >= prev.request_id_counter
    /\ request_id_counter = FirstId + Cardinality(issued)
    /\ \A i \in DOMAIN sampling_requests \cup DOMAIN pending_tool_requests :
          FirstId <= i /\ i < request_id_counter

====
